---- MODULE Spec2Model ----
(***************************************************************************)
(* Model of the Bayesian prediction engine of the repository:              *)
(*   - SimpleBayesianForecaster   (Bayesian-prediction-engine/             *)
(*                                 bayesian_core.py)                       *)
(*   - UniversalPredictor         (Bayesian-prediction-engine/             *)
(*                                 universal_predictor.py)                 *)
(* and of the sentiment project:                                           *)
(*   - store_articles             (sentiment-project/                      *)
(*                                 updated_news_scraper.py)                *)
(*   - OllamaSentimentAnalyzer    (sentiment-project/ollama_chat.py)       *)
(*   - EnhancedOllamaSentimentAnalyzer                                     *)
(*                        (sentiment-project/enhanced_ollama_analyzer.py)  *)
(*                                                                         *)
(* Floating-point numbers are modelled as exact rationals extended with    *)
(* the IEEE-754 special values NaN, +Inf and -Inf, which numpy produces    *)
(* (with a RuntimeWarning, not an exception) on a division by zero.        *)
(* Rounding is not modelled: every finite value is the exact rational.     *)
(* The sign of a zero is not modelled either: the only operation that      *)
(* could observe it is a division by a zero sum, and a sum of the weights  *)
(* is a negative zero only when every weight is a zero, where the quotient *)
(* is NaN whatever the signs.                                              *)
(***************************************************************************)
EXTENDS Integers, Sequences, FiniteSets, TLC

VARIABLES
    scenarios,          \* SimpleBayesianForecaster.scenarios
    probabilities,      \* SimpleBayesianForecaster.probabilities
    fcall,              \* the last call made on the forecaster and its outcome
    fcalls,             \* number of calls made on the forecaster
    fadded,             \* history: add_scenarios has been called
    prior,              \* UniversalPredictor.prior
    feature_likelihoods,\* UniversalPredictor.feature_likelihoods
    feature_counts,     \* UniversalPredictor.feature_counts
    pcall,              \* the last call made on the predictor and its outcome
    pcalls,             \* number of calls made on the predictor
    mpc,                \* where the running script (__main__ or main) stands
    mentered,           \* history: the numbers the script was given
    fweights,           \* history: the priors main handed to add_scenarios
                        \* times every likelihood list it has applied
    news,               \* rows of table news, in rowid order
    ollama_sentiment,   \* rows of table ollama_sentiment, in rowid order
    sent,               \* history: the titles sent to the model, in order
    scall,              \* the last call made on the news database
    ecall               \* the last call of the enhanced analyzer

fvars == <<scenarios, probabilities, fcall, fcalls, fadded>>
pvars == <<prior, feature_likelihoods, feature_counts, pcall, pcalls>>
mvars == <<mpc, mentered, fweights>>
svars == <<news, ollama_sentiment, sent, scall>>
evars == <<ecall>>
vars == <<scenarios, probabilities, fcall, fcalls, fadded,
          prior, feature_likelihoods, feature_counts, pcall, pcalls,
          mpc, mentered, fweights,
          news, ollama_sentiment, sent, scall, ecall>>

(***************************************************************************)
(* Bounds of the model.                                                    *)
(***************************************************************************)
\* largest number of scenarios / probabilities / likelihood scores in a call
MaxN == 2
\* largest number of calls made on one forecaster
MaxFCalls == 3
\* largest number of calls made on one predictor
MaxPCalls == 2
\* largest count handed to UniversalPredictor.update
MaxCount == 3

(***************************************************************************)
(* Floats: <<n, d>> with d > 0 and gcd(n, d) = 1 is the rational n/d;      *)
(* <<0, 0>> is NaN, <<1, 0>> is +Inf and <<-1, 0>> is -Inf.                *)
(***************************************************************************)
Abs(x) == IF x < 0 THEN -x ELSE x

Sign(x) == IF x < 0 THEN -1 ELSE IF x > 0 THEN 1 ELSE 0

RECURSIVE GCD(_, _)
GCD(a, b) == IF b = 0 THEN a ELSE GCD(b, a % b)

NaN == <<0, 0>>
PosInf == <<1, 0>>
NegInf == <<-1, 0>>

\* the float n/d of two integers, d # 0
Rat(n, d) ==
    LET g == GCD(Abs(n), Abs(d))
        s == Sign(d)
    IN  <<(s * n) \div g, (s * d) \div g>>

Zero == Rat(0, 1)
One == Rat(1, 1)
Half == Rat(1, 2)

IsNaN(x) == x = NaN
IsInf(x) == x = PosInf \/ x = NegInf
IsFinite(x) == x[2] > 0

\* x * y (IEEE-754: NaN propagates, Inf * 0 = NaN)
FMul(x, y) ==
    IF IsNaN(x) \/ IsNaN(y) THEN NaN
    ELSE IF IsInf(x) \/ IsInf(y)
         THEN <<Sign(x[1]) * Sign(y[1]), 0>>
    ELSE Rat(x[1] * y[1], x[2] * y[2])

\* x + y (IEEE-754: NaN propagates, Inf + -Inf = NaN)
FAdd(x, y) ==
    IF IsNaN(x) \/ IsNaN(y) THEN NaN
    ELSE IF IsInf(x) /\ IsInf(y) THEN (IF x = y THEN x ELSE NaN)
    ELSE IF IsInf(x) THEN x
    ELSE IF IsInf(y) THEN y
    ELSE Rat(x[1] * y[2] + y[1] * x[2], x[2] * y[2])

\* x - y
FSub(x, y) == FAdd(x, <<-y[1], y[2]>>)

\* x / y (IEEE-754 true division as numpy performs it: 0/0 = NaN,
\* x/0 = +-Inf, Inf/Inf = NaN, x/Inf = 0)
FDiv(x, y) ==
    IF IsNaN(x) \/ IsNaN(y) THEN NaN
    ELSE IF IsInf(y) THEN (IF IsInf(x) THEN NaN ELSE Zero)
    ELSE IF y[1] = 0 THEN <<Sign(x[1]), 0>>
    ELSE IF IsInf(x) THEN <<Sign(x[1]) * Sign(y[1]), 0>>
    ELSE Rat(x[1] * y[2], x[2] * y[1])

\* x < y (IEEE-754: every comparison with NaN is false)
FLess(x, y) ==
    IF IsNaN(x) \/ IsNaN(y) THEN FALSE
    ELSE IF IsInf(x) \/ IsInf(y)
         THEN (x # y) /\ (x = NegInf \/ y = PosInf)
    ELSE x[1] * y[2] < y[1] * x[2]

\* x <= y
FLeq(x, y) == (~IsNaN(x) /\ x = y) \/ FLess(x, y)

(***************************************************************************)
(* numpy arrays of floats: one-dimensional, modelled as sequences.         *)
(***************************************************************************)
\* the sequences over S of length 0..n
SeqsUpTo(S, n) == UNION {[1..k -> S] : k \in 0..n}

\* whether numpy can broadcast the shapes (Len(a),) and (Len(b),)
Broadcastable(a, b) == Len(a) = Len(b) \/ Len(a) = 1 \/ Len(b) = 1

\* a * b for two broadcastable arrays: a length-1 operand is stretched
NpMul(a, b) ==
    LET n == IF Len(a) = 1 THEN Len(b) ELSE Len(a)
    IN  [i \in 1..n |-> FMul(a[IF Len(a) = 1 THEN 1 ELSE i],
                             b[IF Len(b) = 1 THEN 1 ELSE i])]

\* variant of NpSum: the sum misses the first element
RECURSIVE NpSumFromSecond(_)
NpSumFromSecond(a) ==
    IF Len(a) <= 1 THEN Zero ELSE FAdd(a[2], NpSumFromSecond(Tail(a)))

\* a.sum(): 0.0 for the empty array
RECURSIVE NpSum(_)
NpSum(a) == IF a = <<>> THEN Zero ELSE FAdd(a[1], NpSum(Tail(a)))

\* a / s for an array and a float
NpDiv(a, s) == [i \in 1..Len(a) |-> FDiv(a[i], s)]

\* variant of NpArgMax: the last index holding the largest value
NpArgMaxLast(a) ==
    IF \E i \in 1..Len(a) : IsNaN(a[i])
    THEN CHOOSE i \in 1..Len(a) :
            IsNaN(a[i]) /\ \A j \in (i + 1)..Len(a) : ~IsNaN(a[j])
    ELSE CHOOSE i \in 1..Len(a) :
            /\ \A j \in 1..Len(a) : FLeq(a[j], a[i])
            /\ \A j \in (i + 1)..Len(a) : FLess(a[j], a[i])

\* variant of NpArgMax: the first index holding the smallest value
NpArgMin(a) ==
    IF \E i \in 1..Len(a) : IsNaN(a[i])
    THEN CHOOSE i \in 1..Len(a) :
            IsNaN(a[i]) /\ \A j \in 1..(i - 1) : ~IsNaN(a[j])
    ELSE CHOOSE i \in 1..Len(a) :
            /\ \A j \in 1..Len(a) : FLeq(a[i], a[j])
            /\ \A j \in 1..(i - 1) : FLess(a[i], a[j])

\* np.argmax(a) + 1 for a non-empty array: the first NaN if there is one,
\* else the first index holding the largest value
NpArgMax(a) ==
    IF \E i \in 1..Len(a) : IsNaN(a[i])
    THEN CHOOSE i \in 1..Len(a) :
            IsNaN(a[i]) /\ \A j \in 1..(i - 1) : ~IsNaN(a[j])
    ELSE CHOOSE i \in 1..Len(a) :
            /\ \A j \in 1..Len(a) : FLeq(a[j], a[i])
            /\ \A j \in 1..(i - 1) : FLess(a[j], a[i])

(***************************************************************************)
(* SimpleBayesianForecaster                                                *)
(***************************************************************************)
\* the floats the callers hand in as initial probabilities
ProbValues == {Zero, Half, One}

\* the floats the callers hand in as likelihood scores
LikValues == {Zero, Half, One}

\* the scenario lists the callers hand in: labels are 1, 2, ...; a list of
\* every length with unique labels, and lists that repeat the label 1
ScenarioLists ==
    {[i \in 1..k |-> i] : k \in 0..MaxN}
        \cup {[i \in 1..k |-> IF i = k THEN 1 ELSE i] : k \in 2..MaxN}

\* the probability lists the callers hand in: every list over ProbValues,
\* and of every length a list with a negative entry
ProbLists ==
    SeqsUpTo(ProbValues, MaxN)
        \cup {[i \in 1..k |-> IF i = 1 THEN Rat(-1, 2) ELSE Half] : k \in 1..MaxN}

LikLists == SeqsUpTo(LikValues, MaxN)

\* the record of a call on the forecaster: labels and arg are the arguments,
\* old the probabilities stored before it, label and prob the value returned
FCall(op, raised, labels, arg, old, label, prob) ==
    [op |-> op, raised |-> raised, labels |-> labels, arg |-> arg,
     old |-> old, label |-> label, prob |-> prob]

\* SimpleBayesianForecaster.__init__
FInit ==
    /\ scenarios = <<>>
    /\ probabilities = <<>>
    /\ fcall = FCall("__init__", "none", <<>>, <<>>, <<>>, 0, NaN)
    /\ fcalls = 0
    /\ fadded = FALSE

\* add_scenarios(scenario_list, probability_list): stores both as given
add_scenarios(scenario_list, probability_list) ==
    /\ fcalls < MaxFCalls
    /\ scenarios' = scenario_list
    /\ probabilities' = probability_list
    /\ fcall' = FCall("add_scenarios", "none", scenario_list,
                      probability_list, <<>>, 0, NaN)
    /\ fcalls' = fcalls + 1
    /\ fadded' = TRUE

\* variant of Posterior: the products are stored without normalizing
PosteriorNoNormalize(likelihoods, probs) == NpMul(likelihoods, probs)

\* variant of Posterior: the products are divided by the sum of the
\* likelihood scores
PosteriorByLikelihoodSum(likelihoods, probs) ==
    NpDiv(NpMul(likelihoods, probs), NpSum(likelihoods))

\* variant of Posterior: the stored probabilities are left out, the scores
\* alone are normalized
PosteriorIgnoresPrior(likelihoods, probs) ==
    NpDiv(NpMul(likelihoods, [i \in 1..Len(probs) |-> One]),
          NpSum(NpMul(likelihoods, [i \in 1..Len(probs) |-> One])))

\* the probabilities update_with_evidence stores:
\* likelihoods * probabilities / (likelihoods * probabilities).sum()
Posterior(likelihoods, probs) ==
    LET updated_probs == NpMul(likelihoods, probs)
    IN  NpDiv(updated_probs, NpSum(updated_probs))

\* update_with_evidence(evidence_description, likelihood_scores): the
\* product raises ValueError when the shapes cannot be broadcast, before
\* anything is stored
update_with_evidence(likelihood_scores) ==
    /\ fcalls < MaxFCalls
    /\ IF Broadcastable(likelihood_scores, probabilities)
       THEN /\ probabilities' = Posterior(likelihood_scores, probabilities)
            /\ fcall' = FCall("update_with_evidence", "none", <<>>,
                              likelihood_scores, probabilities, 0, NaN)
       ELSE /\ probabilities' = probabilities
            /\ fcall' = FCall("update_with_evidence", "ValueError", <<>>,
                              likelihood_scores, probabilities, 0, NaN)
    /\ scenarios' = scenarios
    /\ fcalls' = fcalls + 1
    /\ fadded' = fadded

\* variant of MostLikely: an empty forecaster answers with a default
MostLikelyDefaultOnEmpty(scens, probs) ==
    IF probs = <<>> \/ NpArgMax(probs) > Len(scens)
    THEN FCall("get_most_likely_scenario", "none", <<>>, <<>>,
               probs, 0, Zero)
    ELSE FCall("get_most_likely_scenario", "none", <<>>, <<>>,
               probs, scens[NpArgMax(probs)], probs[NpArgMax(probs)])

\* what get_most_likely_scenario() does on the stored lists: np.argmax
\* raises ValueError on an empty sequence, scenarios[max_index] raises
\* IndexError past the end of the scenario list
MostLikely(scens, probs) ==
    IF probs = <<>>
    THEN FCall("get_most_likely_scenario", "ValueError", <<>>, <<>>,
               probs, 0, NaN)
    ELSE LET max_index == NpArgMax(probs)
         IN  IF max_index > Len(scens)
             THEN FCall("get_most_likely_scenario", "IndexError", <<>>,
                        <<>>, probs, 0, NaN)
             ELSE FCall("get_most_likely_scenario", "none", <<>>, <<>>,
                        probs, scens[max_index], probs[max_index])

\* get_most_likely_scenario()
get_most_likely_scenario ==
    /\ fcalls < MaxFCalls
    /\ fcall' = MostLikely(scenarios, probabilities)
    /\ fcalls' = fcalls + 1
    /\ UNCHANGED <<scenarios, probabilities, fadded>>

FNext ==
    \/ \E sl \in ScenarioLists, pl \in ProbLists : add_scenarios(sl, pl)
    \/ \E ls \in LikLists : update_with_evidence(ls)
    \/ get_most_likely_scenario

(***************************************************************************)
(* The scripts that drive a forecaster: the __main__ block of              *)
(* bayesian_core.py and main() of interactive_forecaster.py.               *)
(***************************************************************************)
\* no script is running
MInit ==
    /\ mpc = "start"
    /\ mentered = <<>>
    /\ fweights = <<>>

\* the rearrangements of a list of three
Rearranged(a) ==
    {[i \in 1..3 |-> a[q[i]]] :
        q \in {r \in [1..3 -> 1..3] : \A i, j \in 1..3 : r[i] = r[j] => i = j}}

\* __main__: scenarios
ExampleScenarios == <<"Sunny day", "Rainy day", "Cloudy day">>

\* __main__: initial_probs = [0.4, 0.3, 0.3]
initial_probs == <<Rat(4, 10), Rat(3, 10), Rat(3, 10)>>

\* __main__: likelihood_scores = [0.1, 0.9, 0.5]
likelihood_scores == <<Rat(1, 10), Rat(9, 10), Rat(5, 10)>>

\* the priors the example is run with: initial_probs in every order
ExamplePriors == Rearranged(initial_probs)

\* the scores the example is run with: every list of three over the scores
\* of likelihood_scores
ExampleScores == [1..3 -> {likelihood_scores[i] : i \in 1..3}]

\* __main__: forecaster.add_scenarios(scenarios, initial_probs)
example_add_scenarios(probs) ==
    /\ mpc = "start"
    /\ add_scenarios(ExampleScenarios, probs)
    /\ mpc' = "added"
    /\ mentered' = <<probs>>
    /\ UNCHANGED fweights

\* __main__: forecaster.update_with_evidence(..., likelihood_scores)
example_update_with_evidence(scores) ==
    /\ mpc = "added"
    /\ update_with_evidence(scores)
    /\ mpc' = "updated"
    /\ mentered' = Append(mentered, scores)
    /\ UNCHANGED fweights

\* __main__: best_scenario, confidence = forecaster.get_most_likely_scenario()
example_get_most_likely_scenario ==
    /\ mpc = "updated"
    /\ get_most_likely_scenario
    /\ mpc' = "done"
    /\ UNCHANGED <<mentered, fweights>>

ExampleNext ==
    \/ \E probs \in ExamplePriors : example_add_scenarios(probs)
    \/ \E scores \in ExampleScores : example_update_with_evidence(scores)
    \/ example_get_most_likely_scenario

\* interactive_forecaster.py: the numbers the user types, which the
\* prompts ask to be between 0.0 and 1.0
UserValues == {Zero, Half, One}

\* the three likelihoods typed in to get_user_scenarios, and the three typed
\* in to get_evidence_update for the three scenarios
UserLists == [1..3 -> UserValues]

\* the labels typed in to get_user_scenarios
UserScenarios == <<1, 2, 3>>

\* sum(probabilities): the builtin adds from 0, left to right
RECURSIVE PySum(_, _)
PySum(a, start) ==
    IF a = <<>> THEN start ELSE PySum(Tail(a), FAdd(start, a[1]))

\* total = sum(probabilities); [p / total for p in probabilities]: a float
\* division by zero raises ZeroDivisionError
Normalized(probs) ==
    LET total == PySum(probs, Zero)
    IN  IF total = Zero /\ probs # <<>>
        THEN [raised |-> "ZeroDivisionError", probabilities |-> <<>>]
        ELSE [raised |-> "none",
              probabilities |-> [i \in 1..Len(probs) |-> FDiv(probs[i], total)]]

\* main: scenarios, probs = get_user_scenarios();
\* forecaster.add_scenarios(scenarios, probs).  An error in
\* get_user_scenarios ends main before the forecaster is touched.
main_get_user_scenarios(entered) ==
    LET r == Normalized(entered)
    IN  /\ mpc = "start"
        /\ mentered' = entered
        /\ IF r.raised # "none"
           THEN /\ mpc' = r.raised
                /\ UNCHANGED <<fvars, fweights>>
           ELSE /\ add_scenarios(UserScenarios, r.probabilities)
                /\ mpc' = "menu"
                /\ fweights' = r.probabilities

\* main, choice "1": evidence, likelihoods = get_evidence_update(scenarios);
\* forecaster.update_with_evidence(evidence, likelihoods)
main_add_evidence(likelihoods) ==
    /\ mpc = "menu"
    /\ update_with_evidence(likelihoods)
    /\ fweights' = NpMul(likelihoods, fweights)
    /\ UNCHANGED <<mpc, mentered>>

\* main, choice "2": best, confidence = forecaster.get_most_likely_scenario()
main_see_probabilities ==
    /\ mpc = "menu"
    /\ get_most_likely_scenario
    /\ UNCHANGED mvars

\* main, choice "3": break
main_quit ==
    /\ mpc = "menu"
    /\ mpc' = "quit"
    /\ UNCHANGED <<fvars, mentered, fweights>>

MainNext ==
    \/ \E entered \in UserLists : main_get_user_scenarios(entered)
    \/ \E likelihoods \in UserLists : main_add_evidence(likelihoods)
    \/ main_see_probabilities
    \/ main_quit

(***************************************************************************)
(* UniversalPredictor                                                      *)
(***************************************************************************)
\* Python dicts keep insertion order: a dict is the sequence of its
\* <<key, value>> items in insertion order
DictHas(d, k) == \E i \in 1..Len(d) : d[i][1] = k

DictGet(d, k) == d[CHOOSE i \in 1..Len(d) : d[i][1] = k][2]

\* variant of DictSet: the first write wins, an existing key keeps its value
DictSetFirstWins(d, k, v) ==
    IF DictHas(d, k) THEN d ELSE Append(d, <<k, v>>)

\* d[k] = v: an existing key keeps its position, a new key goes last
DictSet(d, k, v) ==
    IF DictHas(d, k)
    THEN [i \in 1..Len(d) |-> IF d[i][1] = k THEN <<k, v>> ELSE d[i]]
    ELSE Append(d, <<k, v>>)

DictKeys(d) == {d[i][1] : i \in 1..Len(d)}

\* the (feature, value) pairs the callers use
Pairs == {<<"age", "20-25">>, <<"age", "26-30">>, <<"interests", "sports">>}

\* the feature names the callers use
Features == {p[1] : p \in Pairs}

\* the counts the callers hand in: a total is zero, two or MaxCount, a
\* positive count is negative, zero, one, the largest total or one more
TotalCounts == {0, 2, MaxCount}

PositiveCounts == {-1, 0, 1, MaxCount, MaxCount + 1}

\* the priors the callers construct a predictor with: the default, and another
PriorValues == {Half, Rat(3, 4)}

\* the feature dicts the callers hand to predict: the items, in the
\* caller's order, of a dict whose keys are feature names
FeatureDicts ==
    {fs \in SeqsUpTo(Pairs, Cardinality(Features)) :
        \A i \in 1..Len(fs) : \A j \in 1..Len(fs) :
            fs[i][1] = fs[j][1] => i = j}

\* what a call that is not predict has in the place of predict's result
NoResult ==
    [probability |-> NaN, confidence |-> NaN,
     used_features |-> <<>>, ignored_features |-> <<>>]

\* the record of a call of update on the predictor: its arguments, and the
\* prior and the two tables as they were before it
PCall(op, raised, feature, value, positive_count, total_count) ==
    [op |-> op, raised |-> raised, feature |-> feature, value |-> value,
     positive_count |-> positive_count, total_count |-> total_count,
     old_likelihoods |-> feature_likelihoods, old_counts |-> feature_counts,
     old_prior |-> prior, features |-> <<>>, result |-> NoResult,
     importance |-> <<>>]

\* the record of a call of predict or get_feature_importance: its
\* argument, what it raised and what it returned
PQuery(op, raised, feature, features, result, importance) ==
    [op |-> op, raised |-> raised, feature |-> feature, value |-> "",
     positive_count |-> 0, total_count |-> 0,
     old_likelihoods |-> feature_likelihoods, old_counts |-> feature_counts,
     old_prior |-> prior, features |-> features, result |-> result,
     importance |-> importance]

\* UniversalPredictor.__init__(prior = 0.5)
PInit ==
    /\ prior \in PriorValues
    /\ feature_likelihoods = <<>>
    /\ feature_counts = <<>>
    /\ pcall = [op |-> "__init__", raised |-> "none", feature |-> "",
                value |-> "", positive_count |-> 0, total_count |-> 0,
                old_likelihoods |-> <<>>, old_counts |-> <<>>,
                old_prior |-> prior, features |-> <<>>,
                result |-> NoResult, importance |-> <<>>]
    /\ pcalls = 0

\* the two checks at the head of update: what they raise
Validate(positive_count, total_count) ==
    IF total_count <= 0 THEN "ValueError"
    ELSE IF positive_count > total_count THEN "ValueError"
    ELSE "none"

\* the table after "if feature not in feature_likelihoods: table[feature] = {}"
WithFeature(likelihoods, table, feature) ==
    IF DictHas(likelihoods, feature) THEN table
    ELSE DictSet(table, feature, <<>>)

\* the table after table[feature][value] = x
WithEntry(table, feature, value, x) ==
    DictSet(table, feature, DictSet(DictGet(table, feature), value, x))

\* variant of UpdateResult: the dicts of a new feature are created before
\* the counts are checked
UpdateResultKeysFirst(likelihoods, counts, feature, value, positive_count, total_count) ==
    IF Validate(positive_count, total_count) # "none"
    THEN [raised |-> Validate(positive_count, total_count),
          likelihoods |-> WithFeature(likelihoods, likelihoods, feature),
          counts |-> WithFeature(likelihoods, counts, feature)]
    ELSE [raised |-> "none",
          likelihoods |->
              WithEntry(WithFeature(likelihoods, likelihoods, feature),
                        feature, value, Rat(positive_count, total_count)),
          counts |->
              WithEntry(WithFeature(likelihoods, counts, feature),
                        feature, value, total_count)]

\* variant of UpdateResult: the likelihood is stored, the count is not
UpdateResultWithoutCount(likelihoods, counts, feature, value, positive_count, total_count) ==
    IF Validate(positive_count, total_count) # "none"
    THEN [raised |-> Validate(positive_count, total_count),
          likelihoods |-> likelihoods,
          counts |-> counts]
    ELSE [raised |-> "none",
          likelihoods |->
              WithEntry(WithFeature(likelihoods, likelihoods, feature),
                        feature, value, Rat(positive_count, total_count)),
          counts |-> WithFeature(likelihoods, counts, feature)]

\* what update(feature, value, positive_count, total_count) raises and
\* leaves in the two tables: the checks come first; "feature not in" is
\* asked of feature_likelihoods alone, and then both dicts are created
UpdateResult(likelihoods, counts, feature, value, positive_count, total_count) ==
    IF Validate(positive_count, total_count) # "none"
    THEN [raised |-> Validate(positive_count, total_count),
          likelihoods |-> likelihoods,
          counts |-> counts]
    ELSE [raised |-> "none",
          likelihoods |->
              WithEntry(WithFeature(likelihoods, likelihoods, feature),
                        feature, value, Rat(positive_count, total_count)),
          counts |->
              WithEntry(WithFeature(likelihoods, counts, feature),
                        feature, value, total_count)]

\* update(feature, value, positive_count, total_count)
update(feature, value, positive_count, total_count) ==
    LET r == UpdateResult(feature_likelihoods, feature_counts, feature,
                          value, positive_count, total_count)
    IN  /\ pcalls < MaxPCalls
        /\ feature_likelihoods' = r.likelihoods
        /\ feature_counts' = r.counts
        /\ pcall' = PCall("update", r.raised, feature, value,
                          positive_count, total_count)
        /\ pcalls' = pcalls + 1
        /\ prior' = prior

\* whether the table holds a likelihood for the pair (feature, value)
Known(likelihoods, feature, value) ==
    /\ DictHas(likelihoods, feature)
    /\ DictHas(DictGet(likelihoods, feature), value)

\* variant of Evidence: the negative class is weighted by (1 - posterior)
\* alone
EvidenceWithoutComplement(likelihood, posterior) ==
    FAdd(FMul(likelihood, posterior), FSub(One, posterior))

\* likelihood * posterior + (1 - likelihood) * (1 - posterior)
Evidence(likelihood, posterior) ==
    FAdd(FMul(likelihood, posterior),
         FMul(FSub(One, likelihood), FSub(One, posterior)))

\* variant of BayesStep: the evidence leaves out the weight (1 - posterior)
\* of the negative class
BayesStepUnweighted(likelihood, posterior) ==
    FDiv(FMul(likelihood, posterior),
         FAdd(FMul(likelihood, posterior), FSub(One, likelihood)))

\* (likelihood * posterior) / (likelihood * posterior
\*                             + (1 - likelihood) * (1 - posterior))
BayesStep(likelihood, posterior) ==
    FDiv(FMul(likelihood, posterior), Evidence(likelihood, posterior))

\* variant of PredictLoop: the loop ends at the first pair that has no
\* stored likelihood
RECURSIVE PredictLoopStopsAtUnknown(_, _, _)
PredictLoopStopsAtUnknown(likelihoods, features, acc) ==
    IF features = <<>> \/ acc.raised # "none" THEN acc
    ELSE LET feature == features[1][1]
             value == features[1][2]
         IN  IF Known(likelihoods, feature, value)
             THEN LET likelihood == DictGet(DictGet(likelihoods, feature), value)
                  IN  IF Evidence(likelihood, acc.posterior) = Zero
                      THEN [acc EXCEPT !.raised = "ZeroDivisionError"]
                      ELSE PredictLoopStopsAtUnknown(likelihoods, Tail(features),
                              [acc EXCEPT
                                 !.posterior = BayesStep(likelihood, @),
                                 !.used_features =
                                    Append(@, <<feature, value, likelihood>>)])
             ELSE [acc EXCEPT
                     !.ignored_features = Append(@, <<feature, value>>)]

\* variant of PredictLoop: a pair that has no stored likelihood is passed
\* over without a trace
RECURSIVE PredictLoopDropsUnknown(_, _, _)
PredictLoopDropsUnknown(likelihoods, features, acc) ==
    IF features = <<>> \/ acc.raised # "none" THEN acc
    ELSE LET feature == features[1][1]
             value == features[1][2]
         IN  IF Known(likelihoods, feature, value)
             THEN LET likelihood == DictGet(DictGet(likelihoods, feature), value)
                  IN  IF Evidence(likelihood, acc.posterior) = Zero
                      THEN [acc EXCEPT !.raised = "ZeroDivisionError"]
                      ELSE PredictLoopDropsUnknown(likelihoods, Tail(features),
                              [acc EXCEPT
                                 !.posterior = BayesStep(likelihood, @),
                                 !.used_features =
                                    Append(@, <<feature, value, likelihood>>)])
             ELSE PredictLoopDropsUnknown(likelihoods, Tail(features), acc)

\* the loop of predict over the items still to come; acc holds posterior,
\* used_features and ignored_features.  The operands are Python floats: a
\* division by zero raises ZeroDivisionError and ends the call.
RECURSIVE PredictLoop(_, _, _)
PredictLoop(likelihoods, features, acc) ==
    IF features = <<>> \/ acc.raised # "none" THEN acc
    ELSE LET feature == features[1][1]
             value == features[1][2]
         IN  IF Known(likelihoods, feature, value)
             THEN LET likelihood == DictGet(DictGet(likelihoods, feature), value)
                  IN  IF Evidence(likelihood, acc.posterior) = Zero
                      THEN [acc EXCEPT !.raised = "ZeroDivisionError"]
                      ELSE PredictLoop(likelihoods, Tail(features),
                              [acc EXCEPT
                                 !.posterior = BayesStep(likelihood, @),
                                 !.used_features =
                                    Append(@, <<feature, value, likelihood>>)])
             ELSE PredictLoop(likelihoods, Tail(features),
                     [acc EXCEPT
                        !.ignored_features = Append(@, <<feature, value>>)])

\* variant of Confidence: an empty dict of features counts as fully covered
ConfidenceOfEmptyIsOne(used_count, total_features) ==
    IF total_features > 0 THEN Rat(used_count, total_features) ELSE One

\* used_count / total_features if total_features > 0 else 0.0
Confidence(used_count, total_features) ==
    IF total_features > 0 THEN Rat(used_count, total_features) ELSE Zero

\* what predict(features) raises and returns
PredictResult(likelihoods, prior0, features) ==
    LET acc == PredictLoop(likelihoods, features,
                   [raised |-> "none", posterior |-> prior0,
                    used_features |-> <<>>, ignored_features |-> <<>>])
    IN  IF acc.raised # "none"
        THEN [raised |-> acc.raised, result |-> NoResult]
        ELSE [raised |-> "none",
              result |->
                 [probability |-> acc.posterior,
                  confidence |->
                     Confidence(Len(acc.used_features), Len(features)),
                  used_features |-> acc.used_features,
                  ignored_features |-> acc.ignored_features]]

\* variant of predict: the posterior becomes the prior of the next call
predictStoresPosterior(features) ==
    LET r == PredictResult(feature_likelihoods, prior, features)
    IN  /\ pcall' = PQuery("predict", r.raised, "", features, r.result, <<>>)
        /\ prior' = IF r.raised = "none" THEN r.result.probability ELSE prior
        /\ UNCHANGED <<feature_likelihoods, feature_counts, pcalls>>

\* predict(features): nothing is stored
predict(features) ==
    LET r == PredictResult(feature_likelihoods, prior, features)
    IN  /\ pcall' = PQuery("predict", r.raised, "", features, r.result, <<>>)
        /\ UNCHANGED <<prior, feature_likelihoods, feature_counts, pcalls>>

\* variant of Importance: the likelihood ratio likelihood / prior, times count
ImportanceAsRatio(likelihood, prior0, count) ==
    FMul(FDiv(likelihood, prior0), Rat(count, 1))

\* (likelihood - self.prior) * count
Importance(likelihood, prior0, count) ==
    FMul(FSub(likelihood, prior0), Rat(count, 1))

\* what get_feature_importance(feature) returns, as the items of the dict:
\* the keys and the values of feature_likelihoods[feature] are zipped with
\* the values of feature_counts[feature], position by position
FeatureImportance(likelihoods, counts, prior0, feature) ==
    IF ~DictHas(likelihoods, feature) THEN <<>>
    ELSE LET ls == DictGet(likelihoods, feature)
             cs == DictGet(counts, feature)
             n == IF Len(ls) < Len(cs) THEN Len(ls) ELSE Len(cs)
         IN  [i \in 1..n |->
                <<ls[i][1], Importance(ls[i][2], prior0, cs[i][2])>>]

\* get_feature_importance(feature): nothing is stored
get_feature_importance(feature) ==
    /\ pcall' = PQuery("get_feature_importance", "none", feature, <<>>,
                       NoResult,
                       FeatureImportance(feature_likelihoods, feature_counts,
                                         prior, feature))
    /\ UNCHANGED <<prior, feature_likelihoods, feature_counts, pcalls>>

PNext ==
    \/ \E p \in Pairs, pc \in PositiveCounts, tc \in TotalCounts :
            update(p[1], p[2], pc, tc)
    \/ \E fs \in FeatureDicts : predict(fs)
    \/ \E f \in Features : get_feature_importance(f)

(***************************************************************************)
(* The news database of the sentiment project: table news, filled by       *)
(* store_articles, and table ollama_sentiment, filled by                   *)
(* OllamaSentimentAnalyzer.analyze_all_articles and read by its            *)
(* get_sentiment_summary.  A table is the sequence of its rows in rowid    *)
(* order, which is the order a SELECT without ORDER BY scans them in.      *)
(* Of the columns of ollama_sentiment, title and polarity are modelled:    *)
(* the selection reads title alone, the three classes polarity alone.      *)
(***************************************************************************)
\* number of distinct links an article can have
MaxLinks == 2
\* largest number of articles handed to one call of store_articles
MaxArticles == 2
\* largest number of titles sent to the model in one history
MaxSent == 3

Titles == {"T", "U"}

Links == 1..MaxLinks

\* the articles fetch_news hands to store_articles
Articles == [title : Titles, link : Links]

ArticleLists == SeqsUpTo(Articles, MaxArticles)

\* a JSON value as json.loads returns it: a key that is absent, None, a
\* float, a str or a list
JAbsent == [t |-> "absent", n |-> Zero, s |-> ""]

JNull == [t |-> "null", n |-> Zero, s |-> ""]

JNum(x) == [t |-> "num", n |-> x, s |-> ""]

JStr(x) == [t |-> "str", n |-> Zero, s |-> x]

JArray == [t |-> "array", n |-> Zero, s |-> ""]

\* a value stored in a column of SQLite: NULL, a REAL or a TEXT
SqlNull == [type |-> "null", value |-> Zero]

SqlReal(x) == [type |-> "real", value |-> x]

SqlText == [type |-> "text", value |-> Zero]

\* the polarity scores a model answers with
PolarityValues ==
    {Rat(-1, 2), Rat(-1, 10), Rat(1, 10), Rat(1, 2)}

\* what the model answers for one title: text that is not JSON, or a JSON
\* object whose "polarity" is absent, null, a number, a string or a list
Responses ==
    {[kind |-> "invalid", polarity |-> JAbsent]}
        \cup {[kind |-> "json", polarity |-> v] :
                v \in {JAbsent, JNull, JStr("high"), JArray}
                        \cup {JNum(x) : x \in PolarityValues}}

\* config.SENTIMENT_POSITIVE_THRESHOLD and SENTIMENT_NEGATIVE_THRESHOLD:
\* the defaults, and a pair set through the environment
Thresholds ==
    {[positive |-> Rat(1, 10), negative |-> Rat(-1, 10)],
     [positive |-> Rat(1, 2), negative |-> Rat(1, 10)],
     [positive |-> Rat(-1, 10), negative |-> Rat(1, 10)]}

\* Config._validate: the thresholds that do not raise ValueError
Validated(cfg) == ~FLeq(cfg.positive, cfg.negative)

\* the statistics a summary prints; the three sums are NULL in SQLite when
\* the table is empty, and are read only when total > 0
NoStats ==
    [total |-> 0, positive |-> 0, negative |-> 0, neutral |-> 0,
     shown |-> FALSE]

\* the record of a call on the database
SCall(op, inserted, skipped, selected, analyzed, errors, cfg, stats) ==
    [op |-> op, inserted |-> inserted, skipped |-> skipped,
     selected |-> selected, analyzed |-> analyzed, errors |-> errors,
     cfg |-> cfg, stats |-> stats]

NoThresholds == [positive |-> Zero, negative |-> Zero]

\* a database without rows
SInit ==
    /\ news = <<>>
    /\ ollama_sentiment = <<>>
    /\ sent = <<>>
    /\ scall = SCall("connect", 0, 0, <<>>, 0, 0, NoThresholds, NoStats)

\* the values of one column of a table
Column(table, name) == [i \in 1..Len(table) |-> table[i][name]]

Range(s) == {s[i] : i \in 1..Len(s)}

\* the loop of store_articles: INSERT OR IGNORE INTO news (title, link),
\* where link is UNIQUE and title is not
RECURSIVE StoreLoop(_, _, _, _)
StoreLoop(table, articles, inserted, skipped) ==
    IF articles = <<>>
    THEN [news |-> table, inserted |-> inserted, skipped |-> skipped]
    ELSE IF Head(articles).link \in Range(Column(table, "link"))
         THEN StoreLoop(table, Tail(articles), inserted, skipped + 1)
         ELSE StoreLoop(Append(table, Head(articles)), Tail(articles),
                        inserted + 1, skipped)

store_articles(articles) ==
    LET r == IF articles = <<>>
             THEN [news |-> news, inserted |-> 0, skipped |-> 0]
             ELSE StoreLoop(news, articles, 0, 0)
    IN  /\ news' = r.news
        /\ scall' = SCall("store_articles", r.inserted, r.skipped, <<>>,
                          0, 0, NoThresholds, NoStats)
        /\ UNCHANGED <<ollama_sentiment, sent>>

\* SELECT title FROM news
\* WHERE title NOT IN (SELECT title FROM ollama_sentiment)
Unanalyzed(newsTable, sentimentTable) ==
    LET titles == Column(newsTable, "title")
        Fresh(t) == t \notin Range(Column(sentimentTable, "title"))
    IN  SelectSeq(titles, Fresh)

\* OllamaSentimentAnalyzer.analyze_article_sentiment: the polarity of the
\* dict it returns
analyze_article_sentiment(response) ==
    IF response.kind = "invalid"
    THEN JNum(Zero)
    ELSE IF response.polarity.t = "absent"
         THEN JNull
         ELSE response.polarity

\* INSERT INTO ollama_sentiment, where title is the PRIMARY KEY: what the
\* statement raises, and the table after it
Insert(table, title, polarity) ==
    IF polarity.t = "array"
    THEN [raised |-> "ProgrammingError", table |-> table]
    ELSE IF title \in Range(Column(table, "title"))
         THEN [raised |-> "IntegrityError", table |-> table]
         ELSE LET stored ==
                    IF polarity.t = "null" \/ IsNaN(polarity.n)
                    THEN SqlNull
                    ELSE IF polarity.t = "str"
                         THEN SqlText
                         ELSE SqlReal(polarity.n)
              IN  [raised |-> "none",
                   table |-> Append(table,
                                [title |-> title, polarity |-> stored])]

\* the loop of analyze_all_articles over the fetched titles
RECURSIVE AnalyzeLoop(_, _, _, _, _)
AnalyzeLoop(table, articles, responses, analyzed, errors) ==
    IF articles = <<>>
    THEN [table |-> table, analyzed |-> analyzed, errors |-> errors]
    ELSE LET result == analyze_article_sentiment(Head(responses))
             r == Insert(table, Head(articles), result)
         IN  IF r.raised = "none"
             THEN AnalyzeLoop(r.table, Tail(articles), Tail(responses),
                              analyzed + 1, errors)
             ELSE AnalyzeLoop(r.table, Tail(articles), Tail(responses),
                              analyzed, errors + 1)

\* OllamaSentimentAnalyzer.analyze_all_articles; responses[i] is what the
\* model answers for the i-th fetched title
analyze_all_articles(responses) ==
    LET articles == Unanalyzed(news, ollama_sentiment)
        r == AnalyzeLoop(ollama_sentiment, articles, responses, 0, 0)
    IN  /\ Len(responses) = Len(articles)
        /\ Len(sent) + Len(articles) <= MaxSent
        /\ ollama_sentiment' = r.table
        /\ sent' = sent \o articles
        /\ scall' = SCall("analyze_all_articles", 0, 0, articles,
                          r.analyzed, r.errors, NoThresholds, NoStats)
        /\ UNCHANGED news

\* polarity > x, polarity < x and polarity BETWEEN x AND y in SQLite: a
\* comparison with NULL is NULL, which a CASE WHEN takes as false, and a
\* TEXT is greater than every number
SqlGreater(v, x) ==
    \/ v.type = "text"
    \/ v.type = "real" /\ FLess(x, v.value)

SqlLess(v, x) == v.type = "real" /\ FLess(v.value, x)

SqlBetween(v, x, y) ==
    /\ v.type = "real"
    /\ FLeq(x, v.value)
    /\ FLeq(v.value, y)

\* the SELECT of OllamaSentimentAnalyzer.get_sentiment_summary: COUNT(*)
\* and the three SUM(CASE WHEN ... THEN 1 ELSE 0 END) over the rows
SummaryStats(table, cfg) ==
    LET rows == 1..Len(table)
    IN  [total |-> Len(table),
         positive |->
            Cardinality({i \in rows :
                SqlGreater(table[i].polarity, cfg.positive)}),
         negative |->
            Cardinality({i \in rows :
                SqlLess(table[i].polarity, cfg.negative)}),
         neutral |->
            Cardinality({i \in rows :
                SqlBetween(table[i].polarity, cfg.negative, cfg.positive)}),
         shown |-> Len(table) > 0]

\* OllamaSentimentAnalyzer.get_sentiment_summary under a configuration
\* that Config._validate accepted
get_sentiment_summary(cfg) ==
    /\ Validated(cfg)
    /\ scall' = SCall("get_sentiment_summary", 0, 0, <<>>, 0, 0, cfg,
                      SummaryStats(ollama_sentiment, cfg))
    /\ UNCHANGED <<news, ollama_sentiment, sent>>

SNext ==
    \/ \E articles \in ArticleLists : store_articles(articles)
    \/ \E responses \in SeqsUpTo(Responses, MaxLinks) :
            analyze_all_articles(responses)
    \/ \E cfg \in Thresholds : get_sentiment_summary(cfg)

(***************************************************************************)
(* EnhancedOllamaSentimentAnalyzer.analyze_article: what it returns for    *)
(* the text the model answers with.  Of the result, the fields that        *)
(* _validate_analysis_result normalizes by value are modelled.             *)
(***************************************************************************)
Emotions ==
    {"joy", "sadness", "anger", "fear", "surprise", "disgust", "neutral"}

valid_categories ==
    {"Technology", "Business", "Politics", "Health", "Sports",
     "Entertainment", "Science", "Environment", "Education", "Travel",
     "Other"}

\* the values the model answers with under each key
EPolarities ==
    {JAbsent, JNull, JStr("high"), JNum(Rat(-2, 1)), JNum(Rat(2, 1)),
     JNum(NaN)}

ESubjectivities == {JNum(Rat(-1, 2)), JNum(PosInf)}

EConfidences == {JAbsent, JArray}

EEmotions == {JAbsent, JStr("joy"), JStr("happy")}

ECategories == {JStr("Sports"), JStr("sports")}

ECategoryConfidences == {JNull, JNum(NegInf)}

\* the value under "sentiment": no such key, a value that is not an
\* object, or an object
ESentiments ==
    {[shape |-> sh, polarity |-> JAbsent, subjectivity |-> JAbsent,
      confidence |-> JAbsent, emotion |-> JAbsent] :
        sh \in {"absent", "other"}}
    \cup {[shape |-> "object", polarity |-> p, subjectivity |-> s,
           confidence |-> c, emotion |-> e] :
            p \in EPolarities, s \in ESubjectivities,
            c \in EConfidences, e \in EEmotions}

\* the value under "categorization"
ECategorizations ==
    {[shape |-> sh, primary_category |-> JAbsent,
      category_confidence |-> JAbsent] : sh \in {"absent", "other"}}
    \cup {[shape |-> "object", primary_category |-> pc,
           category_confidence |-> cc] :
            pc \in ECategories, cc \in ECategoryConfidences}

EShapes == {"absent", "other"}

\* what ollama.generate does: it raises ("error"), or it answers a text
\* without braces ("text"), a text whose braces do not hold JSON
\* ("invalid"), or a text whose braces hold a JSON object ("json")
EResponse(kind, sentiment, categorization, keywords) ==
    [kind |-> kind, sentiment |-> sentiment,
     categorization |-> categorization, keywords |-> keywords]

NoSentiment ==
    [shape |-> "absent", polarity |-> JAbsent, subjectivity |-> JAbsent,
     confidence |-> JAbsent, emotion |-> JAbsent]

NoCategorization ==
    [shape |-> "absent", primary_category |-> JAbsent,
     category_confidence |-> JAbsent]

EResponses ==
    {EResponse(k, NoSentiment, NoCategorization, "absent") :
        k \in {"error", "text", "invalid"}}
    \cup {EResponse("json", s, c, k) :
            s \in ESentiments, c \in ECategorizations, k \in EShapes}

\* the result of analyze_article: None, or the normalized fields
EResult(raised, source, polarity, subjectivity, confidence, emotion, primary_category, category_confidence) ==
    [none |-> raised # "none", raised |-> raised, source |-> source,
     polarity |-> polarity, subjectivity |-> subjectivity,
     confidence |-> confidence, emotion |-> emotion,
     primary_category |-> primary_category,
     category_confidence |-> category_confidence]

\* None, returned by the handler of the exception raised
ENone(raised) == EResult(raised, "none", NaN, NaN, NaN, "", "", NaN)

EInit ==
    ecall = [op |-> "__init__",
             response |-> EResponse("text", NoSentiment,
                                    NoCategorization, "absent"),
             result |-> ENone("none")]

\* min(a, b) and max(a, b) of Python: the first argument, unless the
\* second compares smaller (greater)
PyMin(a, b) == IF FLess(b, a) THEN b ELSE a

PyMax(a, b) == IF FLess(a, b) THEN b ELSE a

\* max(lo, min(1, x)) without its lower bound
ClampUpperOnly(lo, x) == PyMin(One, x)

\* max(lo, min(1, x))
Clamp(lo, x) == PyMax(lo, PyMin(One, x))

\* what float(d.get(key, default)) raises
FloatRaises(v) ==
    IF v.t \in {"null", "array"} THEN "TypeError"
    ELSE IF v.t = "str" THEN "ValueError"
    ELSE "none"

\* float(d.get(key, default)) where it does not raise
Float(v, default) == IF v.t = "absent" THEN default ELSE v.n

\* the first exception in a list of outcomes, "none" if there is none
RECURSIVE FirstRaised(_)
FirstRaised(outcomes) ==
    IF outcomes = <<>> THEN "none"
    ELSE IF Head(outcomes) # "none" THEN Head(outcomes)
    ELSE FirstRaised(Tail(outcomes))

\* d.get(key) of a value that is not a dict
GetRaises(shape) == IF shape = "other" THEN "AttributeError" ELSE "none"

\* EnhancedOllamaSentimentAnalyzer._validate_analysis_result
_validate_analysis_result(response) ==
    LET sentiment == response.sentiment
        categorization == response.categorization
        raised ==
            FirstRaised(<<GetRaises(sentiment.shape),
                          FloatRaises(sentiment.polarity),
                          FloatRaises(sentiment.subjectivity),
                          FloatRaises(sentiment.confidence),
                          GetRaises(categorization.shape),
                          FloatRaises(categorization.category_confidence),
                          GetRaises(response.keywords)>>)
        emotion ==
            IF sentiment.emotion.t = "str"
                    /\ sentiment.emotion.s \in Emotions
            THEN sentiment.emotion.s
            ELSE "neutral"
        primary_category ==
            IF categorization.primary_category.t = "str"
                    /\ categorization.primary_category.s
                            \in valid_categories
            THEN categorization.primary_category.s
            ELSE "Other"
    IN  IF raised # "none"
        THEN ENone(raised)
        ELSE EResult("none", "validated",
                Clamp(Rat(-1, 1), Float(sentiment.polarity, Zero)),
                Clamp(Zero, Float(sentiment.subjectivity, Half)),
                Clamp(Zero, Float(sentiment.confidence, Half)),
                emotion, primary_category,
                Clamp(Zero,
                      Float(categorization.category_confidence, Half)))

\* EnhancedOllamaSentimentAnalyzer._create_fallback_result
_create_fallback_result ==
    EResult("none", "fallback", Zero, Half, Rat(3, 10), "neutral",
            "Other", Rat(3, 10))

\* what analyze_article returns for a response
AnalyzeArticle(response) ==
    IF response.kind = "error" THEN ENone("ResponseError")
    ELSE IF response.kind = "json"
         THEN _validate_analysis_result(response)
         ELSE _create_fallback_result

\* EnhancedOllamaSentimentAnalyzer.analyze_article
analyze_article(response) ==
    ecall' = [op |-> "analyze_article", response |-> response,
              result |-> AnalyzeArticle(response)]

ENext == \E response \in EResponses : analyze_article(response)

(***************************************************************************)
(* The specifications.                                                     *)
(***************************************************************************)
\* the forecaster alone
ForecasterInit == FInit /\ PInit /\ MInit /\ SInit /\ EInit

ForecasterNext == FNext /\ UNCHANGED <<pvars, mvars, svars, evars>>

SpecForecaster == ForecasterInit /\ [][ForecasterNext]_vars

\* the predictor alone
PredictorInit == PInit /\ FInit /\ MInit /\ SInit /\ EInit

PredictorNext == PNext /\ UNCHANGED <<fvars, mvars, svars, evars>>

SpecPredictor == PredictorInit /\ [][PredictorNext]_vars

\* the __main__ block of bayesian_core.py
ExampleInit == FInit /\ PInit /\ MInit /\ SInit /\ EInit

ExampleStep == ExampleNext /\ UNCHANGED <<pvars, svars, evars>>

SpecExample == ExampleInit /\ [][ExampleStep]_vars

\* main() of interactive_forecaster.py
InteractiveInit == FInit /\ PInit /\ MInit /\ SInit /\ EInit

InteractiveNext == MainNext /\ UNCHANGED <<pvars, svars, evars>>

SpecInteractive == InteractiveInit /\ [][InteractiveNext]_vars

\* the news database: store_articles and OllamaSentimentAnalyzer
SentimentInit == SInit /\ EInit /\ FInit /\ PInit /\ MInit

SentimentNext == SNext /\ UNCHANGED <<fvars, pvars, mvars, evars>>

SpecSentiment == SentimentInit /\ [][SentimentNext]_vars

\* EnhancedOllamaSentimentAnalyzer.analyze_article alone
EnhancedInit == EInit /\ SInit /\ FInit /\ PInit /\ MInit

EnhancedNext == ENext /\ UNCHANGED <<fvars, pvars, mvars, svars>>

SpecEnhanced == EnhancedInit /\ [][EnhancedNext]_vars

(***************************************************************************)
(* Properties of SimpleBayesianForecaster, checked under SpecForecaster.   *)
(***************************************************************************)
\* the exact sum of a sequence of floats
RECURSIVE ExactSum(_)
ExactSum(a) == IF a = <<>> THEN Zero ELSE FAdd(a[1], ExactSum(Tail(a)))

\* every entry is a number >= 0
NonNegative(a) ==
    \A i \in 1..Len(a) : IsFinite(a[i]) /\ FLeq(Zero, a[i])

\* every entry is a number in [0,1]
InUnitInterval(a) ==
    \A i \in 1..Len(a) : IsFinite(a[i]) /\ FLeq(Zero, a[i]) /\ FLeq(a[i], One)

\* the entries are non-negative numbers that sum to 1
IsDistribution(p) == NonNegative(p) /\ ExactSum(p) = One

\* no label occurs twice
UniqueLabels(l) ==
    \A i \in 1..Len(l) : \A j \in 1..Len(l) : l[i] = l[j] => i = j

\* the sum over i of likelihood_i * prior_i
WeightSum(l, p) == ExactSum([i \in 1..Len(p) |-> FMul(l[i], p[i])])

\* the last call was update_with_evidence with one score per probability
UpdateOnePerScenario ==
    /\ fcall.op = "update_with_evidence"
    /\ Len(fcall.arg) = Len(fcall.old)

\* C1: after add_scenarios and after every update_with_evidence the stored
\* probabilities are non-negative and sum to 1.  Stated for the calls a
\* careful caller makes: add_scenarios with normalized non-negative priors,
\* one per label, and update_with_evidence on a stored distribution with one
\* non-negative score per scenario.
C1_ProbabilitiesFormDistribution ==
    /\ ( /\ fcall.op = "add_scenarios"
         /\ Len(fcall.labels) = Len(fcall.arg)
         /\ IsDistribution(fcall.arg) )
       => IsDistribution(probabilities)
    /\ ( /\ UpdateOnePerScenario
         /\ IsDistribution(fcall.old)
         /\ NonNegative(fcall.arg) )
       => IsDistribution(probabilities)

\* C2: when the weights likelihood_i * prior_i sum to zero,
\* update_with_evidence fails with an error and leaves the stored
\* distribution as it was; no NaN or Inf is stored.
C2_ZeroWeightSumIsRejected ==
    ( /\ UpdateOnePerScenario
      /\ IsDistribution(fcall.old)
      /\ NonNegative(fcall.arg)
      /\ WeightSum(fcall.arg, fcall.old) = Zero )
    => /\ fcall.raised # "none"
       /\ probabilities = fcall.old
       /\ \A i \in 1..Len(probabilities) : IsFinite(probabilities[i])

\* C3: an update_with_evidence with one score per scenario whose weights
\* have a nonzero sum sets the probability of every scenario i to
\* (likelihood_i * prior_i) / sum over j of (likelihood_j * prior_j), prior
\* being the probabilities stored before the call.
C3_PosteriorIsNormalizedWeight ==
    ( /\ UpdateOnePerScenario
      /\ fcall.raised = "none"
      /\ IsFinite(WeightSum(fcall.arg, fcall.old))
      /\ WeightSum(fcall.arg, fcall.old) # Zero )
    => /\ Len(probabilities) = Len(fcall.old)
       /\ \A i \in 1..Len(fcall.old) :
            probabilities[i] =
                FDiv(FMul(fcall.arg[i], fcall.old[i]),
                     WeightSum(fcall.arg, fcall.old))

\* C3 witness: an update of two scenarios that changed both probabilities
C3_Witness ==
    /\ UpdateOnePerScenario
    /\ fcall.raised = "none"
    /\ Len(fcall.old) = 2
    /\ IsDistribution(fcall.old)
    /\ WeightSum(fcall.arg, fcall.old) = Rat(3, 4)
    /\ probabilities = <<Rat(1, 3), Rat(2, 3)>>

\* the premises of C4 that the original and the amended claim share
C4_ValidUpdate ==
    /\ UpdateOnePerScenario
    /\ Len(fcall.old) >= 1
    /\ IsDistribution(fcall.old)
    /\ NonNegative(fcall.arg)

C5_InvalidScenariosAreRejected ==
    ( /\ fcall.op = "add_scenarios"
      /\ \/ Len(fcall.labels) # Len(fcall.arg)
         \/ \E i \in 1..Len(fcall.arg) : FLess(fcall.arg[i], Zero)
         \/ ~UniqueLabels(fcall.labels) )
    => fcall.raised # "none"

\* C6: when get_most_likely_scenario returns, it returns a stored
\* probability that no stored probability exceeds, with the label at the
\* same position, and that position is the first one holding this
\* probability.
C6_MostLikelyIsFirstMaximum ==
    (fcall.op = "get_most_likely_scenario" /\ fcall.raised = "none")
    => \E m \in 1..Len(probabilities) :
        /\ m <= Len(scenarios)
        /\ fcall.label = scenarios[m]
        /\ fcall.prob = probabilities[m]
        /\ \A j \in 1..Len(probabilities) :
                ~FLess(probabilities[m], probabilities[j])
        /\ \A j \in 1..(m - 1) : probabilities[j] # probabilities[m]

\* C6 witness: two scenarios tie for the maximum and the first is returned
C6_Witness ==
    /\ fcall.op = "get_most_likely_scenario"
    /\ fcall.raised = "none"
    /\ scenarios = <<1, 2>>
    /\ probabilities = <<Half, Half>>
    /\ fcall.label = 1
    /\ fcall.prob = Half

\* C7: get_most_likely_scenario on a forecaster on which add_scenarios was
\* never called fails with an error (the ValueError of np.argmax on an
\* empty sequence) and returns no value.
C7_MostLikelyBeforeAddFails ==
    (fcall.op = "get_most_likely_scenario" /\ ~fadded)
    => fcall.raised = "ValueError"

\* C7 witness: get_most_likely_scenario is the first call on the forecaster
C7_Witness ==
    /\ fcall.op = "get_most_likely_scenario"
    /\ ~fadded
    /\ fcalls = 1
    /\ fcall.raised = "ValueError"

\* C8: update_with_evidence with one and the same nonzero score for every
\* scenario leaves a stored distribution as it was.
C8_UniformEvidenceChangesNothing ==
    ( /\ UpdateOnePerScenario
      /\ Len(fcall.old) >= 1
      /\ IsDistribution(fcall.old)
      /\ \A i \in 1..Len(fcall.arg) :
            fcall.arg[i] = fcall.arg[1] /\ fcall.arg[1] # Zero )
    => /\ fcall.raised = "none"
       /\ probabilities = fcall.old

\* C8 witness: the score 1/2 for each of two scenarios of different
\* probabilities
C8_Witness ==
    /\ UpdateOnePerScenario
    /\ fcall.old = <<Zero, One>>
    /\ fcall.arg = <<Half, Half>>
    /\ probabilities = <<Zero, One>>

(***************************************************************************)
(* Properties of UniversalPredictor, checked under SpecPredictor.          *)
(***************************************************************************)
\* C9: update fails with an error if total_count <= 0 or positive_count >
\* total_count, and a failed update leaves feature_likelihoods and
\* feature_counts exactly as they were.
C9_InvalidCountsRejectedBeforeMutation ==
    pcall.op = "update"
    => /\ (pcall.total_count <= 0 \/ pcall.positive_count > pcall.total_count)
            => pcall.raised = "ValueError"
       /\ pcall.raised # "none"
            => /\ feature_likelihoods = pcall.old_likelihoods
               /\ feature_counts = pcall.old_counts

\* C9 witness: a failed update for a feature the tables do not hold yet
C9_Witness ==
    /\ pcall.op = "update"
    /\ pcall.raised = "ValueError"
    /\ pcall.positive_count > pcall.total_count
    /\ pcall.total_count > 0
    /\ ~DictHas(pcall.old_likelihoods, pcall.feature)
    /\ ~DictHas(feature_likelihoods, pcall.feature)
    /\ feature_likelihoods # <<>>

\* C10: after any sequence of update calls every stored likelihood lies in
\* [0,1] and every stored total count is strictly positive.
C10_StoredLikelihoodsInUnitInterval ==
    /\ \A i \in 1..Len(feature_likelihoods) :
         \A j \in 1..Len(feature_likelihoods[i][2]) :
            /\ FLeq(Zero, feature_likelihoods[i][2][j][2])
            /\ FLeq(feature_likelihoods[i][2][j][2], One)
    /\ \A i \in 1..Len(feature_counts) :
         \A j \in 1..Len(feature_counts[i][2]) :
            feature_counts[i][2][j][2] > 0

\* what a table holds for the pair (feature, value), if anything
Entry(table, feature, value) ==
    IF Known(table, feature, value)
    THEN <<"set", DictGet(DictGet(table, feature), value)>>
    ELSE <<"unset">>

\* C11: a successful update for (feature, value) stores positive_count /
\* total_count and this call's total_count for exactly that pair, whatever
\* was stored for it before, and leaves the entry of every other pair as it
\* was.
C11_UpdateStoresLastWrite ==
    (pcall.op = "update" /\ pcall.raised = "none")
    => /\ Entry(feature_likelihoods, pcall.feature, pcall.value)
            = <<"set", Rat(pcall.positive_count, pcall.total_count)>>
       /\ Entry(feature_counts, pcall.feature, pcall.value)
            = <<"set", pcall.total_count>>
       /\ \A q \in Pairs \ {<<pcall.feature, pcall.value>>} :
            /\ Entry(feature_likelihoods, q[1], q[2])
                 = Entry(pcall.old_likelihoods, q[1], q[2])
            /\ Entry(feature_counts, q[1], q[2])
                 = Entry(pcall.old_counts, q[1], q[2])

\* C11 witness: a successful update overwrites the entry of its pair with
\* another likelihood and another count
C11_Witness ==
    /\ pcall.op = "update"
    /\ pcall.raised = "none"
    /\ Known(pcall.old_likelihoods, pcall.feature, pcall.value)
    /\ Entry(pcall.old_likelihoods, pcall.feature, pcall.value)
         # Entry(feature_likelihoods, pcall.feature, pcall.value)
    /\ Entry(pcall.old_counts, pcall.feature, pcall.value)
         # Entry(feature_counts, pcall.feature, pcall.value)
    /\ Entry(feature_counts, pcall.feature, pcall.value)
         = <<"set", pcall.total_count>>

\* the posterior at the end of the chain that starts from posterior and
\* applies, in the order of features, the stored likelihood of each pair
\* that has one
RECURSIVE Chain(_, _, _)
Chain(table, features, posterior) ==
    IF features = <<>> THEN posterior
    ELSE LET e == Entry(table, features[1][1], features[1][2])
         IN  IF e[1] = "set"
             THEN Chain(table, Tail(features),
                        FDiv(FMul(e[2], posterior),
                             FAdd(FMul(e[2], posterior),
                                  FMul(FSub(One, e[2]),
                                       FSub(One, posterior)))))
             ELSE Chain(table, Tail(features), posterior)

\* the pairs of features that have a stored likelihood, in their order
KnownPairs(table, features) ==
    SelectSeq(features, LAMBDA f : Known(table, f[1], f[2]))

\* the pairs of features that have no stored likelihood, in their order
UnknownPairs(table, features) ==
    SelectSeq(features, LAMBDA f : ~Known(table, f[1], f[2]))

\* C12: the probability predict returns is the end of the chain that starts
\* from the prior and replaces posterior by (L * posterior) / (L * posterior
\* + (1 - L) * (1 - posterior)) for each supplied pair with a stored
\* likelihood L, in the caller's order; used_features lists the applied
\* (feature, value, L) triples in that order.
C12_ProbabilityIsChainFromPrior ==
    (pcall.op = "predict" /\ pcall.raised = "none")
    => LET known == KnownPairs(feature_likelihoods, pcall.features)
       IN  /\ pcall.result.probability
                = Chain(feature_likelihoods, pcall.features, prior)
           /\ Len(pcall.result.used_features) = Len(known)
           /\ \A i \in 1..Len(known) :
                pcall.result.used_features[i]
                  = <<known[i][1], known[i][2],
                      Entry(feature_likelihoods, known[i][1], known[i][2])[2]>>

\* C12 witness: two features are applied, neither of them neutral or
\* extreme, and the probability is neither the prior nor a likelihood
C12_Witness ==
    /\ pcall.op = "predict"
    /\ pcall.raised = "none"
    /\ Len(pcall.result.used_features) = 2
    /\ \A i \in 1..2 :
         /\ FLess(Zero, pcall.result.used_features[i][3])
         /\ FLess(pcall.result.used_features[i][3], Half)
         /\ pcall.result.probability # pcall.result.used_features[i][3]
    /\ pcall.result.probability # prior
    /\ FLess(Zero, pcall.result.probability)

\* the stored likelihoods of the pairs of features that have one, in order
AppliedLikelihoods(table, features) ==
    LET known == KnownPairs(table, features)
    IN  [i \in 1..Len(known) |-> Entry(table, known[i][1], known[i][2])[2]]

\* the entries that are exactly 0 or exactly 1, in order
Extremes(likelihoods) ==
    SelectSeq(likelihoods, LAMBDA l : l = Zero \/ l = One)

\* C13: when predict applies a stored likelihood that is exactly 0 or
\* exactly 1, the call does not fail with a division by zero and the
\* probability it returns is that extreme, the first one applied, whatever
\* is applied after it.  Stated for tables whose likelihoods all lie in
\* [0,1].
C13_ExtremeLikelihoodIsAbsorbing ==
    LET applied == AppliedLikelihoods(feature_likelihoods, pcall.features)
    IN  (/\ pcall.op = "predict"
         /\ InUnitInterval(applied)
         /\ Extremes(applied) # <<>>)
        => /\ pcall.raised = "none"
           /\ pcall.result.probability = Extremes(applied)[1]

\* the items of a feature dict, as a set
Items(features) == {features[i] : i \in 1..Len(features)}

\* C14: for the table and the prior as they are, predict gives the same
\* probability for every order in which the same features are supplied.
C14_ProbabilityIsOrderIndependent ==
    pcall.op = "predict"
    => \A fs \in FeatureDicts :
          Items(fs) = Items(pcall.features)
          => LET r == PredictResult(feature_likelihoods, prior, fs)
             IN  /\ r.raised = pcall.raised
                 /\ r.result.probability = pcall.result.probability

\* C15: a supplied pair with no stored likelihood (the feature is unknown,
\* or its value is not recorded) goes to ignored_features and does not
\* change the posterior: the probability is the one the pairs with a stored
\* likelihood give on their own.  When no supplied pair is known, the
\* probability is the prior and the confidence is 0.0.
C15_UnknownPairsAreIgnored ==
    (pcall.op = "predict" /\ pcall.raised = "none")
    => LET known == KnownPairs(feature_likelihoods, pcall.features)
       IN  /\ pcall.result.ignored_features
                = UnknownPairs(feature_likelihoods, pcall.features)
           /\ pcall.result.probability
                = Chain(feature_likelihoods, known, prior)
           /\ known = <<>>
                => /\ pcall.result.probability = prior
                   /\ pcall.result.confidence = Zero

\* C15 witness: an unknown value of a known feature is ignored before a
\* known pair moves the posterior
C15_Witness ==
    /\ pcall.op = "predict"
    /\ pcall.raised = "none"
    /\ Len(pcall.features) = 2
    /\ DictHas(feature_likelihoods, pcall.features[1][1])
    /\ pcall.result.ignored_features = <<pcall.features[1]>>
    /\ Len(pcall.result.used_features) = 1
    /\ pcall.result.probability # prior

\* C16: the confidence predict returns is the number of supplied features
\* that had a stored likelihood over the number of supplied features, and
\* 0.0 when no features are supplied.
C16_ConfidenceIsCoverage ==
    (pcall.op = "predict" /\ pcall.raised = "none")
    => LET used == Len(KnownPairs(feature_likelihoods, pcall.features))
           supplied == Len(pcall.features)
       IN  /\ supplied = 0 => pcall.result.confidence = Zero
           /\ supplied > 0
                => /\ pcall.result.confidence[1] * supplied
                        = used * pcall.result.confidence[2]
                   /\ pcall.result.confidence[2] > 0

\* C16 witness: one of two supplied features had a stored likelihood
C16_Witness ==
    /\ pcall.op = "predict"
    /\ pcall.raised = "none"
    /\ Len(pcall.features) = 2
    /\ Len(pcall.result.used_features) = 1
    /\ pcall.result.confidence = Half

\* C17: with prior 0.5, predict on exactly one pair that has a stored
\* likelihood returns that likelihood as the probability, confidence 1.0,
\* the pair as the one used feature and no ignored feature.
C17_SingleFeatureRoundTrip ==
    (/\ pcall.op = "predict"
     /\ prior = Half
     /\ Len(pcall.features) = 1
     /\ KnownPairs(feature_likelihoods, pcall.features) # <<>>)
    => LET f == pcall.features[1]
           l == Entry(feature_likelihoods, f[1], f[2])[2]
       IN  /\ pcall.raised = "none"
           /\ pcall.result.probability = l
           /\ pcall.result.confidence = One
           /\ pcall.result.used_features = <<<<f[1], f[2], l>>>>
           /\ pcall.result.ignored_features = <<>>

\* C17 witness: one update with counts (1, MaxCount), then predict on its
\* pair
C17_Witness ==
    /\ pcall.op = "predict"
    /\ prior = Half
    /\ pcalls = 1
    /\ feature_counts = <<<<"age", <<<<"20-25", MaxCount>>>>>>>>
    /\ pcall.features = <<<<"age", "20-25">>>>
    /\ pcall.result.probability = Rat(1, MaxCount)

\* C18: every result predict returns, whatever updates built the table and
\* whatever features are supplied, has a probability in [0,1] and a
\* confidence in [0,1].
C18_ResultInUnitInterval ==
    (pcall.op = "predict" /\ pcall.raised = "none")
    => InUnitInterval(<<pcall.result.probability, pcall.result.confidence>>)

\* what predict leaves behind: the prior and the two tables are the ones it
\* found
PredictFrame ==
    pcall.op = "predict"
    => /\ prior = pcall.old_prior
       /\ feature_likelihoods = pcall.old_likelihoods
       /\ feature_counts = pcall.old_counts

\* a predict call that follows a predict call with the same features, with
\* no update between them, raises and returns the same
PredictRepeats ==
    (/\ pcall.op = "predict"
     /\ pcall'.op = "predict"
     /\ pcall'.features = pcall.features)
    => /\ pcall'.raised = pcall.raised
       /\ pcall'.result = pcall.result

\* C19: predict stores nothing: it leaves prior, feature_likelihoods and
\* feature_counts unchanged, so a second predict call with the same
\* features and no update in between returns the same result.
C19_PredictStoresNothing == []PredictFrame /\ [][PredictRepeats]_vars

\* C19 witness: predict has returned a probability that is not the prior,
\* and the prior is still the one of the constructor
C19_Witness ==
    /\ pcall.op = "predict"
    /\ pcall.raised = "none"
    /\ pcall.result.used_features # <<>>
    /\ pcall.result.probability # prior
    /\ prior = pcall.old_prior
    /\ feature_likelihoods # <<>>

\* the values q of feature that have a stored likelihood
RecordedValues(table, feature) ==
    {q[2] : q \in {r \in Pairs : r[1] = feature /\ Known(table, r[1], r[2])}}

Near(x, thousandths) ==
    /\ IsFinite(x)
    /\ Abs(2000 * x[1] - 2 * thousandths * x[2]) <= x[2]

\* the example has run with the priors and the scores of the source, up to
\* its update at least
ExampleRan ==
    /\ mpc \in {"updated", "done"}
    /\ scenarios = ExampleScenarios
    /\ mentered = <<initial_probs, likelihood_scores>>

\* C21 as amended: with scenarios [Sunny, Rainy, Cloudy], priors
\* [0.4, 0.3, 0.3] and likelihoods [0.1, 0.9, 0.5] the products are
\* [0.04, 0.27, 0.15], their sum is 0.46, the probabilities after the
\* update are approximately [0.087, 0.587, 0.326], and the most likely
\* scenario is Rainy with probability approximately 0.587.
C21_ExampleGivesRainy587 ==
    /\ ExampleRan
        => /\ [i \in 1..3 |-> FMul(likelihood_scores[i], initial_probs[i])]
                = <<Rat(4, 100), Rat(27, 100), Rat(15, 100)>>
           /\ WeightSum(likelihood_scores, initial_probs) = Rat(46, 100)
           /\ Len(probabilities) = 3
           /\ Near(probabilities[1], 87)
           /\ Near(probabilities[2], 587)
           /\ Near(probabilities[3], 326)
    /\ (ExampleRan /\ mpc = "done")
        => /\ fcall.raised = "none"
           /\ fcall.label = "Rainy day"
           /\ Near(fcall.prob, 587)

\* C21 as stated: the probabilities are approximately [0.069, 0.621,
\* 0.310] and the most likely scenario is Rainy with probability
\* approximately 0.621.
C21_ExampleGivesRainy621 ==
    /\ ExampleRan
        => /\ Len(probabilities) = 3
           /\ Near(probabilities[1], 69)
           /\ Near(probabilities[2], 621)
           /\ Near(probabilities[3], 310)
    /\ (ExampleRan /\ mpc = "done")
        => /\ fcall.raised = "none"
           /\ fcall.label = "Rainy day"
           /\ Near(fcall.prob, 621)

\* C21 witness: the example has run to its end on the inputs of the source
C21_Witness ==
    /\ ExampleRan
    /\ mpc = "done"
    /\ fcall.op = "get_most_likely_scenario"
    /\ fcall.label = "Rainy day"
    /\ probabilities = <<Rat(2, 23), Rat(27, 46), Rat(15, 46)>>

\* C22: update_with_evidence with a likelihood sequence whose length is
\* not the number of scenarios raises an error and leaves the stored
\* probabilities as they were.  Stated for a forecaster that holds at
\* least one scenario and one probability for each.
C22_LengthMismatchIsRejected ==
    (/\ fcall.op = "update_with_evidence"
     /\ Len(scenarios) >= 1
     /\ Len(fcall.old) = Len(scenarios)
     /\ Len(fcall.arg) # Len(scenarios))
    => /\ fcall.raised # "none"
       /\ probabilities = fcall.old

\* the weights w divided by their sum
NormalizedWeights(w) ==
    LET total == ExactSum(w)
    IN  [i \in 1..Len(w) |-> FDiv(w[i], total)]

\* the normalized element-wise product of the scores l and the
\* distribution p
Renormalized(l, p) ==
    NormalizedWeights([i \in 1..Len(p) |-> FMul(l[i], p[i])])

C24_ZeroStaysZero ==
    (/\ UpdateOnePerScenario
     /\ IsDistribution(fcall.old)
     /\ NonNegative(fcall.arg)
     /\ fcall.raised = "none")
    => \A i \in 1..Len(fcall.old) :
          fcall.old[i] = Zero => probabilities[i] = Zero

\* C25: whatever three numbers the user typed, all 0 included, main has
\* handed add_scenarios priors that sum to 1.
C25_MainPassesNormalizedPriors ==
    /\ mpc # "start" => (mpc \in {"menu", "quit"} /\ fadded)
    /\ (mpc = "menu" /\ fcall.op = "add_scenarios")
        => ExactSum(fcall.arg) = One

(***************************************************************************)
(* Further properties of UniversalPredictor, checked under SpecPredictor.  *)
(***************************************************************************)
\* the keys of a dict, in insertion order
KeyList(d) == [i \in 1..Len(d) |-> d[i][1]]

\* C26: feature_likelihoods and feature_counts hold the same features in
\* the same insertion order and, for each feature, the same values in the
\* same insertion order, so that the value at a position of one is the
\* value at that position of the other.
C26_TablesShareKeysInOrder ==
    /\ KeyList(feature_likelihoods) = KeyList(feature_counts)
    /\ \A i \in 1..Len(feature_likelihoods) :
         /\ i <= Len(feature_counts)
         /\ KeyList(feature_likelihoods[i][2]) = KeyList(feature_counts[i][2])

\* C26 witness: two values of one feature, recorded by two updates, stand
\* in both tables
C26_Witness ==
    /\ Len(feature_likelihoods) = 1
    /\ KeyList(feature_likelihoods[1][2]) = <<"26-30", "20-25">>
    /\ KeyList(feature_counts[1][2]) = <<"26-30", "20-25">>
    /\ feature_counts[1][2][1][2] # feature_counts[1][2][2][2]

\* C27: in every result of predict each supplied feature is in exactly one
\* of used_features and ignored_features: the two lists together are as
\* long as the dict of features, and a feature is in used_features exactly
\* when the table holds a likelihood for its (feature, value) pair, and in
\* ignored_features exactly when it does not.
C27_UsedAndIgnoredPartitionFeatures ==
    (pcall.op = "predict" /\ pcall.raised = "none")
    => LET used == pcall.result.used_features
           ignored == pcall.result.ignored_features
       IN  /\ Len(used) + Len(ignored) = Len(pcall.features)
           /\ \A i \in 1..Len(pcall.features) :
                LET f == pcall.features[i]
                    isUsed == \E j \in 1..Len(used) :
                                 used[j][1] = f[1] /\ used[j][2] = f[2]
                    isIgnored == \E j \in 1..Len(ignored) : ignored[j] = f
                IN  /\ isUsed <=> Known(feature_likelihoods, f[1], f[2])
                    /\ isIgnored <=> ~Known(feature_likelihoods, f[1], f[2])

\* C27 witness: of two supplied features the first is used and the second,
\* a feature the table does not hold, is ignored
C27_Witness ==
    /\ pcall.op = "predict"
    /\ pcall.raised = "none"
    /\ Len(pcall.features) = 2
    /\ Len(pcall.result.used_features) = 1
    /\ pcall.result.used_features[1][1] = pcall.features[1][1]
    /\ pcall.result.ignored_features = <<pcall.features[2]>>
    /\ ~DictHas(feature_likelihoods, pcall.features[2][1])

(***************************************************************************)
(* Properties of the sentiment project, checked under SpecSentiment and    *)
(* SpecEnhanced.                                                           *)
(***************************************************************************)
\* C28: across any sequence of runs of analyze_all_articles over any
\* contents of table news, no title is sent to the model more than once
\* and no insert into ollama_sentiment fails: the errors of every run are 0.
C28_EachTitleAnalysedOnce ==
    /\ \A i, j \in 1..Len(sent) : sent[i] = sent[j] => i = j
    /\ scall.op = "analyze_all_articles" => scall.errors = 0

\* C29: in every summary that get_sentiment_summary shows, the positive,
\* the negative and the neutral count add up to the total number of rows.
C29_ClassesAddUpToTotal ==
    (scall.op = "get_sentiment_summary" /\ scall.stats.shown)
    => scall.stats.positive + scall.stats.negative + scall.stats.neutral
            = scall.stats.total

InRange(lo, x, hi) == FLeq(lo, x) /\ FLeq(x, hi)

\* C30: a result of analyze_article that is not None, validated or
\* fallback, has polarity in [-1, 1], subjectivity, confidence and
\* category_confidence in [0, 1], one of the seven emotions and one of the
\* eleven categories; the result is None only when an exception was
\* raised, and an answer that holds no JSON gives the fallback.
C30_ResultFieldsInRange ==
    ecall.op = "analyze_article"
    => LET r == ecall.result
       IN  /\ ~r.none
                => /\ InRange(Rat(-1, 1), r.polarity, One)
                   /\ InRange(Zero, r.subjectivity, One)
                   /\ InRange(Zero, r.confidence, One)
                   /\ InRange(Zero, r.category_confidence, One)
                   /\ r.emotion \in Emotions
                   /\ r.primary_category \in valid_categories
           /\ r.none => r.raised # "none"
           /\ ecall.response.kind \in {"text", "invalid"}
                => ~r.none /\ r.source = "fallback"

\* C30 witness: a validated result whose polarity 2 was cut to 1, whose
\* subjectivity -0.5 was raised to 0 and whose emotion "happy" and
\* category "sports" were replaced
C30_Witness ==
    /\ ecall.op = "analyze_article"
    /\ ecall.result.source = "validated"
    /\ ecall.response.sentiment.polarity = JNum(Rat(2, 1))
    /\ ecall.result.polarity = One
    /\ ecall.response.sentiment.subjectivity = JNum(Rat(-1, 2))
    /\ ecall.result.subjectivity = Zero
    /\ ecall.response.sentiment.emotion = JStr("happy")
    /\ ecall.result.emotion = "neutral"
    /\ ecall.response.categorization.primary_category = JStr("sports")
    /\ ecall.result.primary_category = "Other"

====
